---- MODULE Spec2Model ----
(***************************************************************************)
(* Model of the dev-portal GitLab fetch layer (mr_fetcher.py) as it is     *)
(* driven by the FastAPI handlers of main.py.                              *)
(*                                                                         *)
(* Time is the monotonic clock in milliseconds.  Python strings that the   *)
(* code splits, strips or parses are sequences of one-character strings;   *)
(* values whose Python type varies (None / int / str) are records with a   *)
(* type tag so that they stay comparable.                                  *)
(***************************************************************************)
EXTENDS Integers, Sequences, FiniteSets, TLC

\* ------------------------------------------------------------- bounds
MaxTicks == 2         \* the clock stops advancing after this many ticks
TickMs == 1000        \* granularity of the passage of time (ms)
MaxBacklog == 1       \* requests that can wait for the event loop

\* the handler coroutines that can exist together
Tasks == {1, 2}

\* ------------------------------------------------------------- strings
Min2(a, b) == IF a < b THEN a ELSE b

IsSpace(c) == c = " "

RECURSIVE LStrip(_)
LStrip(s) == IF s # <<>> /\ IsSpace(Head(s)) THEN LStrip(Tail(s)) ELSE s

RECURSIVE RStripSpace(_)
RStripSpace(s) ==
    IF s # <<>> /\ IsSpace(s[Len(s)]) THEN RStripSpace(SubSeq(s, 1, Len(s) - 1)) ELSE s

\* str.strip()
Strip(s) == RStripSpace(LStrip(s))

\* str.rstrip("/")
RECURSIVE RStripSlash(_)
RStripSlash(s) ==
    IF s # <<>> /\ s[Len(s)] = "/" THEN RStripSlash(SubSeq(s, 1, Len(s) - 1)) ELSE s

\* str.split(","): the segments between commas, empty ones included
RECURSIVE SplitAcc(_, _, _)
SplitAcc(s, cur, acc) ==
    IF s = <<>> THEN Append(acc, cur)
    ELSE IF Head(s) = "," THEN SplitAcc(Tail(s), <<>>, Append(acc, cur))
    ELSE SplitAcc(Tail(s), Append(cur, Head(s)), acc)

Split(s) == SplitAcc(s, <<>>, <<>>)

\* [a.strip() for a in assignees_raw.split(",") if a.strip()]
RECURSIVE StripNonEmpty(_)
StripNonEmpty(segs) ==
    IF segs = <<>> THEN <<>>
    ELSE IF Strip(Head(segs)) # <<>>
         THEN <<Strip(Head(segs))>> \o StripNonEmpty(Tail(segs))
         ELSE StripNonEmpty(Tail(segs))

\* int(text): optional sign, then decimal digits; anything else raises
Digits == {"0", "1", "2", "3", "4", "5", "6", "7", "8", "9"}

DigitVal(c) ==
    CASE c = "0" -> 0 [] c = "1" -> 1 [] c = "2" -> 2 [] c = "3" -> 3 [] c = "4" -> 4
      [] c = "5" -> 5 [] c = "6" -> 6 [] c = "7" -> 7 [] c = "8" -> 8 [] c = "9" -> 9

RECURSIVE DigitsVal(_, _)
DigitsVal(s, acc) ==
    IF s = <<>> THEN acc ELSE DigitsVal(Tail(s), acc * 10 + DigitVal(Head(s)))

AllDigits(s) == s # <<>> /\ \A i \in 1..Len(s) : s[i] \in Digits

\* the result of int(text): ok = FALSE stands for the ValueError
ParseInt(text) ==
    LET s == Strip(text) IN
    IF s # <<>> /\ s[1] = "-" /\ AllDigits(Tail(s))
        THEN [ok |-> TRUE, val |-> 0 - DigitsVal(Tail(s), 0)]
    ELSE IF AllDigits(s) THEN [ok |-> TRUE, val |-> DigitsVal(s, 0)]
    ELSE [ok |-> FALSE, val |-> 0]

\* ------------------------------------------------------------- values
\* A Python value of varying type: None, an int or a str.
PyNone == [t |-> "none", n |-> 0, s |-> <<>>]
PyInt(n) == [t |-> "int", n |-> n, s |-> <<>>]
PyStr(s) == [t |-> "str", n |-> 0, s |-> s]

\* int(v) as used at lines 72 and 61: ok = FALSE stands for the exception
IntOf(v) ==
    CASE v.t = "int" -> [ok |-> TRUE, val |-> v.n]
      [] v.t = "str" -> ParseInt(v.s)
      [] OTHER -> [ok |-> FALSE, val |-> 0]

\* json.dumps(v, sort_keys=True) of a scalar: the JSON text, by its kind
Dumps(v) ==
    CASE v.t = "int" -> [json |-> "number", n |-> v.n, s |-> <<>>]
      [] v.t = "str" -> [json |-> "string", n |-> 0, s |-> v.s]
      [] OTHER -> [json |-> "null", n |-> 0, s |-> <<>>]

\* A dict is the sequence of its items in insertion order.
DictHas(d, k) == \E j \in 1..Len(d) : d[j].k = k

DictGet(d, k, default) ==
    IF DictHas(d, k) THEN d[CHOOSE j \in 1..Len(d) : d[j].k = k].v ELSE default

\* d[k] = v: an existing key keeps its place, a new one goes last
DictSet(d, k, v) ==
    IF DictHas(d, k)
        THEN [j \in 1..Len(d) |-> IF d[j].k = k THEN [k |-> k, v |-> v] ELSE d[j]]
        ELSE Append(d, [k |-> k, v |-> v])

\* ------------------------------------------------------------- environment
VARIABLES env

Unset == [set |-> FALSE, val |-> <<>>]
SetTo(text) == [set |-> TRUE, val |-> text]

\* os.getenv(name, default)
Getenv(name, default) == IF env[name].set THEN env[name].val ELSE default

\* mutant: an empty value counts as configured
Configured_IsSet(name) == env[name].set

\* os.getenv(name): truthy only when set and non-empty
Configured(name) == env[name].set /\ env[name].val # <<>>

DefaultMaxAssignees == 10
DefaultPerPage == 20
PerPageCap == 40
DefaultCacheTtl == 30
DefaultMinIntervalMs == 200

\* int(os.getenv(name, "<default>")) with the except branch
EnvInt(name, default) ==
    IF ~env[name].set THEN default
    ELSE LET r == ParseInt(env[name].val) IN IF r.ok THEN r.val ELSE default

max_assignees == EnvInt("GITLAB_MAX_ASSIGNEES", DefaultMaxAssignees)
cache_ttl == EnvInt("GITLAB_CACHE_TTL_SECONDS", DefaultCacheTtl)
min_interval_ms == EnvInt("GITLAB_MIN_INTERVAL_MS", DefaultMinIntervalMs)
default_username == Strip(Getenv("GITLAB_USERNAME", <<>>))

\* ------------------------------------------------------------- fetch prologue
\* lines 50-54: the subjects named by the raw string, or the default one
ParseAssignees(assignees_raw) ==
    IF assignees_raw # <<>> THEN StripNonEmpty(Split(assignees_raw))
    ELSE IF default_username # <<>> THEN <<default_username>>
    ELSE <<>>

\* mutant: the slice keeps one subject too many
CapAssignees_OneMore(usernames, cap) ==
    IF cap > 0 /\ Len(usernames) > cap THEN SubSeq(usernames, 1, cap + 1) ELSE usernames

\* lines 64-65: cap the number of subjects
CapAssignees(usernames, cap) ==
    IF cap > 0 /\ Len(usernames) > cap THEN SubSeq(usernames, 1, cap) ELSE usernames

\* mutant: the cap of 100 that the docstring names
ClampPerPage_Cap100(n) ==
    LET capped == IF n > 100 THEN 100 ELSE n
    IN IF capped <= 0 THEN DefaultPerPage ELSE capped

\* lines 71-78: the page size sent upstream
ClampPerPage(n) ==
    LET capped == IF n > PerPageCap THEN PerPageCap ELSE n
    IN IF capped <= 0 THEN DefaultPerPage ELSE capped

PerPage(params) ==
    LET r == IntOf(DictGet(params, "per_page", PyInt(DefaultPerPage)))
    IN ClampPerPage(IF r.ok THEN r.val ELSE DefaultPerPage)

\* lines 70-79
SafeParams(params) == DictSet(params, "per_page", PyInt(PerPage(params)))

\* lines 95-96
OneParams(safe_params, uname) == DictSet(safe_params, "assignee_username", PyStr(uname))

\* the parameter names in the order Python sorts them
ParamNames == <<"assignee_username", "order_by", "per_page", "scope", "sort", "state">>

KeyRank(k) == CHOOSE j \in 1..Len(ParamNames) : ParamNames[j] = k

\* sorted(...) of line 98, by insertion
RECURSIVE InsertSorted(_, _)
InsertSorted(sorted, item) ==
    IF sorted = <<>> THEN <<item>>
    ELSE IF KeyRank(item.k) < KeyRank(Head(sorted).k) THEN <<item>> \o sorted
    ELSE <<Head(sorted)>> \o InsertSorted(Tail(sorted), item)

RECURSIVE SortItems(_, _)
SortItems(d, acc) ==
    IF d = <<>> THEN acc ELSE SortItems(Tail(d), InsertSorted(acc, Head(d)))

\* mutant: the items are frozen in insertion order, without sorted()
FrozenParams_Unsorted(one_params) ==
    [j \in 1..Len(one_params) |-> [k |-> one_params[j].k, v |-> Dumps(one_params[j].v)]]

\* line 98
FrozenParams(one_params) ==
    SortItems([j \in 1..Len(one_params) |->
                  [k |-> one_params[j].k, v |-> Dumps(one_params[j].v)]], <<>>)

\* line 99
CacheKey(api_url, uname, one_params) ==
    [url |-> RStripSlash(api_url), uname |-> uname, params |-> FrozenParams(one_params)]

\* ------------------------------------------------------------- upstream data
\* A merge request record: its "id" field (an int, a str or missing) and a
\* tag standing for the rest of its content.
MR(idt, id, tag) ==
    [idt |-> idt, id |-> id, tag |-> tag, project_id |-> "int", iid |-> "int",
     reviewers |-> "empty"]

\* A record with the fields the handlers read: "project_id" and "iid" (an int,
\* a str, or "none" for missing or null) and "reviewers" ("none" for missing
\* or null, "empty" for [], "some" for a list with reviewers).
MRWith(mr, project_id, iid, reviewers) ==
    [mr EXCEPT !.project_id = project_id, !.iid = iid, !.reviewers = reviewers]

\* the value json.loads gives: a list of records, or something that is no list
ListData(items) == [kind |-> "list", items |-> items]
ObjectData == [kind |-> "object", items |-> <<>>]
NullData == [kind |-> "null", items |-> <<>>]

\* response bodies: JSON lists, a JSON object, JSON null, and text that is not JSON
ListBody(items) == [json |-> "list", items |-> items]
ObjectBody == [json |-> "object", items |-> <<>>]
NullBody == [json |-> "null", items |-> <<>>]
BadBody == [json |-> "bad", items |-> <<>>]

\* what urlopen can end in: status 0 stands for a transport error (no response)
Response(status, body) == [status |-> status, body |-> body]
Failure(status) == Response(status, BadBody)

\* mutant: a malformed body is kept as None instead of []
LoadBody_BadIsNone(body) ==
    CASE body.json = "list" -> ListData(body.items)
      [] body.json = "object" -> ObjectData
      [] OTHER -> NullData

\* lines 119-123: json.loads(body), a malformed body giving []
LoadBody(body) ==
    CASE body.json = "list" -> ListData(body.items)
      [] body.json = "object" -> ObjectData
      [] body.json = "null" -> NullData
      [] OTHER -> ListData(<<>>)

\* line 104: entry.get("data") or []  (None is falsy)
DataOrEmpty(data) == IF data.kind = "null" THEN ListData(<<>>) ELSE data

\* lines 127-134: merge one subject's records into the aggregate
RECURSIVE MergeItems(_, _, _)
MergeItems(items, aggregated, seen_ids) ==
    IF items = <<>> THEN [aggregated |-> aggregated, seen_ids |-> seen_ids]
    ELSE LET mr == Head(items) IN
         IF mr.idt = "int"
             THEN IF mr.id \in seen_ids
                      THEN MergeItems(Tail(items), aggregated, seen_ids)
                      ELSE MergeItems(Tail(items), Append(aggregated, mr),
                                      seen_ids \cup {mr.id})
             ELSE MergeItems(Tail(items), Append(aggregated, mr), seen_ids)

\* mutant: the seen ids are forgotten between subjects
Merge_PerSubject(data, aggregated, seen_ids) ==
    IF data.kind = "list" THEN MergeItems(data.items, aggregated, {})
    ELSE [aggregated |-> aggregated, seen_ids |-> seen_ids]

Merge(data, aggregated, seen_ids) ==
    IF data.kind = "list" THEN MergeItems(data.items, aggregated, seen_ids)
    ELSE [aggregated |-> aggregated, seen_ids |-> seen_ids]

\* ------------------------------------------------------------- state
VARIABLES
    dotenv,             \* the .env files and how far main.py has loaded them
    upstream,           \* the responses the GitLab server can give in this run
    routes,             \* the handlers that clients call in this run
    clock,              \* time.monotonic(), in ms
    backlog,            \* accepted requests waiting for the event loop
    _CACHE,             \* cache key -> [ts, data]
    _LAST_REQUEST_TS,   \* [set, ts]: None, or the time of the last paced request
    task,               \* per inbound request: the handler's and fetch's locals
    trace,              \* per inbound request: what its fetch has done (history)
    prev_return,        \* [set, ts]: when _throttle last returned (history)
    stored_at_start     \* cache key -> start time of the call that stored it (history)

vars == <<env, dotenv, upstream, routes, clock, backlog, _CACHE, _LAST_REQUEST_TS, task, trace,
          prev_return, stored_at_start>>

world == <<env, dotenv, upstream, routes>>

MsPerSecond == 1000

NoTime == [set |-> FALSE, ts |-> 0]
At(ts) == [set |-> TRUE, ts |-> ts]

\* the return value of fetch_gitlab_mrs: (live, username); an empty username is None
NoneResult == [none |-> TRUE, items |-> <<>>, username |-> <<>>]
ListResult(items, username) == [none |-> FALSE, items |-> items, username |-> username]

NoError == [kind |-> "", status |-> 0, uname |-> <<>>]

\* the locals of the rebase loop of action_rebase_all (main.py lines 251-256)
NoRebase == [j |-> 0, attempted |-> 0, succeeded |-> 0, failures |-> <<>>,
             rebased_iids |-> <<>>]

\* the JSON response of a handler: its status code and the fields followed here
NoResponse == [status |-> 0, source |-> "", count |-> 0, summary |-> NoRebase]
JSONResponse(status, source, count, summary) ==
    [status |-> status, source |-> source, count |-> count, summary |-> summary]

IdleTask ==
    [pc |-> "idle", handler |-> "", assignees_raw |-> <<>>, params |-> <<>>,
     assignee_usernames |-> <<>>, safe_params |-> <<>>, i |-> 0,
     aggregated |-> <<>>, seen_ids |-> {}, wake |-> 0,
     result |-> NoneResult, error |-> NoError,
     rebase |-> NoRebase, response |-> NoResponse]

IdleTrace == [start |-> 0, used |-> <<>>, requests |-> <<>>, throttles |-> 0]

\* ------------------------------------------------------------- handlers
Handlers == {"review-mrs", "my-mrs"}

BaseParams(order_by) ==
    <<[k |-> "state", v |-> PyStr(<<"opened">>)],
      [k |-> "scope", v |-> PyStr(<<"all">>)],
      [k |-> "order_by", v |-> PyStr(<<order_by>>)],
      [k |-> "sort", v |-> PyStr(<<"desc">>)],
      [k |-> "per_page", v |-> PyInt(50)]>>

\* main.py lines 66 and 116: the raw subject string each handler passes
HandlerRaw(h) ==
    IF h = "review-mrs" THEN Strip(Getenv("GITLAB_ASSIGNEES", <<>>))
    ELSE Strip(Getenv("MY_MRS_ASSIGNEE", Getenv("GITLAB_USERNAME", <<"zlata.podlucka">>)))

\* main.py lines 67-73 and 120-126: the parameters each handler passes
HandlerParams(h) ==
    IF h = "review-mrs" THEN BaseParams("updated_at") ELSE BaseParams("created_at")

\* mutant: the handlers run in worker threads, any number at a time
LoopFree_Threads(t) == TRUE

\* ------------------------------------------------------------- fetch_gitlab_mrs
\* The handlers are coroutines without an await: the event loop runs one to
\* its end before it starts another (main.py: async def, blocking calls).
LoopFree(t) == \A u \in Tasks \ {t} : task[u].pc = "idle"

\* line 45: upstream is configured
IsConfigured == Configured("GITLAB_API_URL") /\ Configured("GITLAB_TOKEN")

\* mutant: a TTL of zero or less means "never expires"
Fresh_NoExpiry(entry, now, ttl) == ttl <= 0 \/ (now - entry.ts) <= ttl * MsPerSecond

\* mutant: an entry exactly TTL old is stale already
Fresh_Strict(entry, now, ttl) == (now - entry.ts) < ttl * MsPerSecond

\* mutant: the age is compared in the wrong unit
Fresh_Unit(entry, now, ttl) == (now - entry.ts) <= ttl * MsPerSecond * MsPerSecond

\* line 103: the entry is fresh
Fresh(entry, now, ttl) == (now - entry.ts) <= ttl * MsPerSecond

\* line 27: elapsed milliseconds
Elapsed(now, last) == now - last

\* mutant: sleeps for the elapsed time instead of the remaining time
SleepUntil_Elapsed(now, interval, elapsed) == now + elapsed

\* line 29: the time the sleep ends at the earliest
SleepUntil(now, interval, elapsed) == now + (interval - elapsed)

\* line 125: the entry stored after a fetch
NewEntry(now, data) == [ts |-> now, data |-> data]

\* the subject task t is at, and its cache key (lines 94-99)
Uname(t) == task[t].assignee_usernames[task[t].i]

KeyOf(t) ==
    CacheKey(env["GITLAB_API_URL"].val, Uname(t), OneParams(task[t].safe_params, Uname(t)))

\* lines 127-136: merge the subject's data, then go on to the next subject or return
AfterSubject(t, src, data) ==
    LET m == Merge(data, task[t].aggregated, task[t].seen_ids)
        last == task[t].i = Len(task[t].assignee_usernames)
    IN /\ task' = [task EXCEPT ![t].aggregated = m.aggregated,
                               ![t].seen_ids = m.seen_ids,
                               ![t].i = IF last THEN @ ELSE @ + 1,
                               ![t].pc = IF last THEN "returned" ELSE "lookup",
                               ![t].result = IF last
                                                THEN ListResult(m.aggregated, default_username)
                                                ELSE @]
       /\ trace' = [trace EXCEPT ![t].used = Append(@, [src |-> src, data |-> data])]

\* lines 43-92 of fetch_gitlab_mrs(assignees_raw, params): return early, or
\* enter the loop over the subjects
Prologue(frame) ==
    LET parsed == ParseAssignees(frame.assignees_raw) IN
    IF ~IsConfigured
        THEN [frame EXCEPT !.pc = "returned", !.result = NoneResult]
    ELSE IF parsed = <<>>
        THEN [frame EXCEPT !.pc = "returned", !.result = ListResult(<<>>, default_username)]
    ELSE [frame EXCEPT !.pc = "lookup", !.i = 1,
                       !.assignee_usernames = CapAssignees(parsed, max_assignees),
                       !.safe_params = SafeParams(frame.params)]

\* a request arrives and waits for the event loop
Arrive ==
    /\ backlog < MaxBacklog
    /\ backlog' = backlog + 1
    /\ UNCHANGED <<world, clock, _CACHE, _LAST_REQUEST_TS, task, trace, prev_return,
                   stored_at_start>>

\* the event loop starts handler h, which calls fetch_gitlab_mrs
Dispatch(t, h) ==
    /\ backlog > 0
    /\ task[t].pc = "idle"
    /\ \A u \in Tasks : u < t => task[u].pc # "idle"
    /\ LoopFree(t)
    /\ backlog' = backlog - 1
    /\ task' = [task EXCEPT ![t] =
                    Prologue([task[t] EXCEPT !.handler = h,
                                             !.assignees_raw = HandlerRaw(h),
                                             !.params = HandlerParams(h)])]
    /\ trace' = [trace EXCEPT ![t] = [IdleTrace EXCEPT !.start = clock]]
    /\ UNCHANGED <<world, clock, _CACHE, _LAST_REQUEST_TS, prev_return, stored_at_start>>

\* fetch_gitlab_mrs is called with the arguments that frame t holds
Call(t) ==
    /\ task[t].pc = "called"
    /\ task' = [task EXCEPT ![t] = Prologue(task[t])]
    /\ trace' = [trace EXCEPT ![t] = [IdleTrace EXCEPT !.start = clock]]
    /\ UNCHANGED <<world, clock, backlog, _CACHE, _LAST_REQUEST_TS, prev_return,
                   stored_at_start>>

\* lines 101-105: serve the subject from the cache if its entry is fresh
Lookup(t) ==
    /\ task[t].pc = "lookup"
    /\ IF KeyOf(t) \in DOMAIN _CACHE /\ Fresh(_CACHE[KeyOf(t)], clock, cache_ttl)
           THEN AfterSubject(t, "cache", DataOrEmpty(_CACHE[KeyOf(t)].data))
           ELSE /\ task' = [task EXCEPT ![t].pc = "throttle"]
                /\ trace' = [trace EXCEPT ![t].throttles = @ + 1]
    /\ UNCHANGED <<world, clock, backlog, _CACHE, _LAST_REQUEST_TS, prev_return, stored_at_start>>

\* _throttle has returned: the request of lines 109-116 is sent
SendRequest(t) ==
    /\ prev_return' = At(clock)
    /\ trace' = [trace EXCEPT ![t].requests =
                    Append(@, [uname |-> Uname(t),
                               per_page |-> DictGet(OneParams(task[t].safe_params, Uname(t)),
                                                    "per_page", PyNone)])]

\* _throttle, lines 19-28: return at once, or go to sleep
Throttle(t) ==
    /\ task[t].pc = "throttle"
    /\ IF min_interval_ms <= 0
           THEN /\ task' = [task EXCEPT ![t].pc = "urlopen"]
                /\ UNCHANGED _LAST_REQUEST_TS
                /\ SendRequest(t)
       ELSE IF ~_LAST_REQUEST_TS.set
           THEN /\ task' = [task EXCEPT ![t].pc = "urlopen"]
                /\ _LAST_REQUEST_TS' = At(clock)
                /\ SendRequest(t)
       ELSE IF Elapsed(clock, _LAST_REQUEST_TS.ts) < min_interval_ms
           THEN /\ task' = [task EXCEPT ![t].pc = "sleep",
                                        ![t].wake = SleepUntil(clock, min_interval_ms,
                                                       Elapsed(clock, _LAST_REQUEST_TS.ts))]
                /\ UNCHANGED <<_LAST_REQUEST_TS, prev_return, trace>>
       ELSE /\ task' = [task EXCEPT ![t].pc = "urlopen"]
            /\ _LAST_REQUEST_TS' = At(clock)
            /\ SendRequest(t)
    /\ UNCHANGED <<world, clock, backlog, _CACHE, stored_at_start>>

\* mutant: line 30 is missing, the timestamp is not taken after the sleep
Wake_NoStamp(t) ==
    /\ task[t].pc = "sleep"
    /\ clock >= task[t].wake
    /\ task' = [task EXCEPT ![t].pc = "urlopen", ![t].wake = 0]
    /\ UNCHANGED _LAST_REQUEST_TS
    /\ SendRequest(t)
    /\ UNCHANGED <<world, clock, backlog, _CACHE, stored_at_start>>

\* _throttle, lines 29-30: the sleep is over, the timestamp is taken
Wake(t) ==
    /\ task[t].pc = "sleep"
    /\ clock >= task[t].wake
    /\ task' = [task EXCEPT ![t].pc = "urlopen", ![t].wake = 0]
    /\ _LAST_REQUEST_TS' = At(clock)
    /\ SendRequest(t)
    /\ UNCHANGED <<world, clock, backlog, _CACHE, stored_at_start>>

\* what the failed request raises (lines 116-118)
ErrorOf(resp, uname) ==
    [kind |-> IF resp.status = 0 THEN "URLError"
              ELSE IF resp.status >= 400 THEN "HTTPError" ELSE "RuntimeError",
     status |-> resp.status,
     uname |-> IF resp.status \in 200..299 THEN uname ELSE <<>>]

\* mutant: a failed request skips its subject and the loop goes on
Urlopen_SkipFailed(t, resp) ==
    /\ task[t].pc = "urlopen"
    /\ IF resp.status = 200
           THEN /\ _CACHE' = (KeyOf(t) :> NewEntry(clock, LoadBody(resp.body))) @@ _CACHE
                /\ stored_at_start' = (KeyOf(t) :> trace[t].start) @@ stored_at_start
                /\ AfterSubject(t, "upstream", LoadBody(resp.body))
           ELSE /\ AfterSubject(t, "upstream", ListData(<<>>))
                /\ UNCHANGED <<_CACHE, stored_at_start>>
    /\ UNCHANGED <<world, clock, backlog, _LAST_REQUEST_TS, prev_return>>

\* mutant: a failed request throws the cache away
Urlopen_EvictOnError(t, resp) ==
    /\ task[t].pc = "urlopen"
    /\ IF resp.status = 200
           THEN /\ _CACHE' = (KeyOf(t) :> NewEntry(clock, LoadBody(resp.body))) @@ _CACHE
                /\ stored_at_start' = (KeyOf(t) :> trace[t].start) @@ stored_at_start
                /\ AfterSubject(t, "upstream", LoadBody(resp.body))
           ELSE /\ task' = [task EXCEPT ![t].pc = "raised",
                                        ![t].error = ErrorOf(resp, Uname(t))]
                /\ _CACHE' = <<>>
                /\ UNCHANGED <<stored_at_start, trace>>
    /\ UNCHANGED <<world, clock, backlog, _LAST_REQUEST_TS, prev_return>>

\* lines 116-125: the upstream request ends in response resp
Urlopen(t, resp) ==
    /\ task[t].pc = "urlopen"
    /\ IF resp.status = 200
           THEN /\ _CACHE' = (KeyOf(t) :> NewEntry(clock, LoadBody(resp.body))) @@ _CACHE
                /\ stored_at_start' = (KeyOf(t) :> trace[t].start) @@ stored_at_start
                /\ AfterSubject(t, "upstream", LoadBody(resp.body))
           ELSE /\ task' = [task EXCEPT ![t].pc = "raised",
                                        ![t].error = ErrorOf(resp, Uname(t))]
                /\ UNCHANGED <<_CACHE, stored_at_start, trace>>
    /\ UNCHANGED <<world, clock, backlog, _LAST_REQUEST_TS, prev_return>>

\* the handler builds its response and the request is over
Finish(t) ==
    /\ task[t].pc \in {"returned", "raised"}
    /\ task' = [task EXCEPT ![t] = IdleTask]
    /\ trace' = [trace EXCEPT ![t] = IdleTrace]
    /\ UNCHANGED <<world, clock, backlog, _CACHE, _LAST_REQUEST_TS, prev_return, stored_at_start>>

\* time passes while the thread sleeps, waits for upstream, or is idle
Tick ==
    /\ \A t \in Tasks : task[t].pc \in {"idle", "sleep", "urlopen"}
    /\ clock + TickMs <= MaxTicks * TickMs
    /\ clock' = clock + TickMs
    /\ UNCHANGED <<world, backlog, _CACHE, _LAST_REQUEST_TS, task, trace, prev_return,
                   stored_at_start>>

Next ==
    \/ Arrive
    \/ \E t \in Tasks, h \in routes : Dispatch(t, h)
    \/ \E t \in Tasks : Lookup(t)
    \/ \E t \in Tasks : Throttle(t)
    \/ \E t \in Tasks : Wake(t)
    \/ \E t \in Tasks, resp \in upstream : Urlopen(t, resp)
    \/ \E t \in Tasks : Finish(t)
    \/ Tick

\* ------------------------------------------------------------- responses
\* the decimal digits of an HTTP status, as f"{resp.status}" prints them
StatusText(n) ==
    LET d(k) == CHOOSE c \in Digits : DigitVal(c) = k
    IN IF n < 10 THEN <<d(n)>>
       ELSE IF n < 100 THEN <<d(n \div 10), d(n % 10)>>
       ELSE <<d(n \div 100), d((n \div 10) % 10), d(n % 10)>>

\* str(e) of what fetch_gitlab_mrs raises. The fixed words are single tokens
\* (they hold no digit); the status and the subject are spelled out.
\*   urllib.error.URLError:   <urlopen error ...>
\*   urllib.error.HTTPError:  HTTP Error 401: Unauthorized
\*   RuntimeError (line 118): GitLab API returned HTTP 204 for assignee u
ErrorMessage(error) ==
    CASE error.kind = "URLError" -> <<"<urlopen error ", "reason", ">">>
      [] error.kind = "HTTPError" ->
             <<"HTTP Error ">> \o StatusText(error.status) \o <<": ", "reason">>
      [] OTHER ->
             <<"GitLab API returned ", "HTTP ">> \o StatusText(error.status)
                 \o <<" for assignee ">> \o error.uname

\* needle in msg
Contains(msg, needle) ==
    \E j \in 1..(Len(msg) - Len(needle) + 1) :
        SubSeq(msg, j, j + Len(needle) - 1) = needle

\* main.py line 235: "HTTP 401" in msg or "401" in msg
AuthFailure(msg) ==
    Contains(msg, <<"HTTP ", "4", "0", "1">>) \/ Contains(msg, <<"4", "0", "1">>)

\* main.py lines 234-236
FailureStatus(msg) == IF AuthFailure(msg) THEN 401 ELSE 500

\* mutant: anything but an exception counts as live data
IsList_Any(result) == TRUE

\* main.py lines 77 and 130: isinstance(live, list)
IsList(result) == ~result.none

\* main.py lines 43-53: _filter_mrs keeps the records without reviewers
RECURSIVE FilterMrs(_)
FilterMrs(items) ==
    IF items = <<>> THEN <<>>
    ELSE (IF Head(items).reviewers = "some" THEN <<>> ELSE <<Head(items)>>)
         \o FilterMrs(Tail(items))

\* the routes of main.py that are followed
Routes == Handlers \cup {"rebase-all", "todos"}

\* the event loop may start a handler in slot t (as in Dispatch)
MayStart(t) ==
    /\ backlog > 0
    /\ task[t].pc = "idle"
    /\ \A u \in Tasks : u < t => task[u].pc # "idle"
    /\ LoopFree(t)

Started(h) == [IdleTask EXCEPT !.handler = h]

\* main.py lines 184-199: widget_todos answers without any upstream call
DispatchTodos(t) ==
    /\ "todos" \in routes
    /\ MayStart(t)
    /\ backlog' = backlog - 1
    /\ task' = [task EXCEPT ![t] =
                    [Started("todos") EXCEPT !.pc = "responded",
                                             !.response = JSONResponse(200, "dummy", 3, NoRebase)]]
    /\ trace' = [trace EXCEPT ![t] = [IdleTrace EXCEPT !.start = clock]]
    /\ UNCHANGED <<world, clock, _CACHE, _LAST_REQUEST_TS, prev_return, stored_at_start>>

\* main.py lines 210-230: action_rebase_all checks the configuration and
\* calls fetch_gitlab_mrs for the target user
DispatchRebase(t) ==
    /\ "rebase-all" \in routes
    /\ MayStart(t)
    /\ backlog' = backlog - 1
    /\ task' = [task EXCEPT ![t] =
                    IF \/ Strip(Getenv("GITLAB_API_URL", <<>>)) = <<>>
                       \/ Strip(Getenv("GITLAB_TOKEN", <<>>)) = <<>>
                        THEN [Started("rebase-all") EXCEPT
                                  !.pc = "responded",
                                  !.response = JSONResponse(400, "", 0, NoRebase)]
                        ELSE Prologue([Started("rebase-all") EXCEPT
                                  !.assignees_raw = HandlerRaw("rebase-all"),
                                  !.params = BaseParams("created_at")])]
    /\ trace' = [trace EXCEPT ![t] = [IdleTrace EXCEPT !.start = clock]]
    /\ UNCHANGED <<world, clock, _CACHE, _LAST_REQUEST_TS, prev_return, stored_at_start>>

\* main.py lines 75-105 and 128-181: the widget handlers take the outcome of
\* the call, catch what it raised, and answer
Respond(t) ==
    /\ task[t].handler \in Handlers
    /\ task[t].pc \in {"returned", "raised"}
    /\ LET live == task[t].pc = "returned" /\ IsList(task[t].result)
           items == IF live THEN task[t].result.items ELSE <<>>
           shown == IF task[t].handler = "review-mrs" THEN FilterMrs(items) ELSE items
       IN task' = [task EXCEPT ![t].pc = "responded",
                               ![t].response =
                                   JSONResponse(200, IF live THEN "gitlab" ELSE "sample",
                                                Len(shown), NoRebase)]
    /\ UNCHANGED <<world, clock, backlog, _CACHE, _LAST_REQUEST_TS, trace, prev_return,
                   stored_at_start>>

\* main.py lines 231-256: action_rebase_all takes the outcome of the call
RespondRebase(t) ==
    /\ task[t].handler = "rebase-all"
    /\ task[t].pc \in {"returned", "raised"}
    /\ task' = [task EXCEPT ![t] =
                    IF task[t].pc = "raised"
                        THEN [@ EXCEPT !.pc = "responded",
                                       !.response = JSONResponse(
                                           FailureStatus(ErrorMessage(task[t].error)),
                                           "", 0, NoRebase)]
                    ELSE IF task[t].result.none
                        THEN [@ EXCEPT !.pc = "responded",
                                       !.response = JSONResponse(400, "", 0, NoRebase)]
                    ELSE [@ EXCEPT !.pc = "rebase", !.rebase = [NoRebase EXCEPT !.j = 1]]]
    /\ UNCHANGED <<world, clock, backlog, _CACHE, _LAST_REQUEST_TS, trace, prev_return,
                   stored_at_start>>

\* the record the rebase loop of task t is at
RebaseMr(t) == task[t].result.items[task[t].rebase.j]

\* main.py lines 256-271 and 290-303: the loop skips a record without
\* project_id or iid, sends the PUT for one that has both, or ends with the summary
RebaseNext(t) ==
    /\ task[t].pc = "rebase"
    /\ task' = [task EXCEPT ![t] =
                    IF task[t].rebase.j > Len(task[t].result.items)
                        THEN [@ EXCEPT !.pc = "responded",
                                       !.response = JSONResponse(200, "gitlab", 0,
                                                                 task[t].rebase)]
                    ELSE IF RebaseMr(t).project_id = "none" \/ RebaseMr(t).iid = "none"
                        THEN [@ EXCEPT !.rebase.j = @ + 1]
                    ELSE [@ EXCEPT !.pc = "put", !.rebase.attempted = @ + 1]]
    /\ UNCHANGED <<world, clock, backlog, _CACHE, _LAST_REQUEST_TS, trace, prev_return,
                   stored_at_start>>

\* mutant: the exception of a failed PUT is not caught inside the loop; the
\* loop ends there
RebasePut_Abort(t, resp) ==
    /\ task[t].pc = "put"
    /\ task' = [task EXCEPT ![t] =
                    IF resp.status \in 200..299
                        THEN [@ EXCEPT !.pc = "rebase", !.rebase.j = @ + 1,
                                       !.rebase.succeeded = @ + 1,
                                       !.rebase.rebased_iids =
                                           IF RebaseMr(t).iid = "int"
                                               THEN Append(@, RebaseMr(t)) ELSE @]
                        ELSE [@ EXCEPT !.pc = "rebase",
                                       !.rebase.j = Len(task[t].result.items) + 1]]
    /\ UNCHANGED <<world, clock, backlog, _CACHE, _LAST_REQUEST_TS, trace, prev_return,
                   stored_at_start>>

\* main.py lines 270-288: the PUT ends in resp; urlopen raises for a transport
\* error and for a status outside 2xx, and the loop catches it
RebasePut(t, resp) ==
    /\ task[t].pc = "put"
    /\ task' = [task EXCEPT ![t] =
                    IF resp.status \in 200..299
                        THEN [@ EXCEPT !.pc = "rebase", !.rebase.j = @ + 1,
                                       !.rebase.succeeded = @ + 1,
                                       !.rebase.rebased_iids =
                                           IF RebaseMr(t).iid = "int"
                                               THEN Append(@, RebaseMr(t)) ELSE @]
                        ELSE [@ EXCEPT !.pc = "rebase", !.rebase.j = @ + 1,
                                       !.rebase.failures = Append(@, RebaseMr(t))]]
    /\ UNCHANGED <<world, clock, backlog, _CACHE, _LAST_REQUEST_TS, trace, prev_return,
                   stored_at_start>>

\* the response is sent and the request is over
Close(t) ==
    /\ task[t].pc = "responded"
    /\ task' = [task EXCEPT ![t] = IdleTask]
    /\ trace' = [trace EXCEPT ![t] = IdleTrace]
    /\ UNCHANGED <<world, clock, backlog, _CACHE, _LAST_REQUEST_TS, prev_return, stored_at_start>>

NextHandlers ==
    \/ Arrive
    \/ \E t \in Tasks, h \in routes \cap Handlers : Dispatch(t, h)
    \/ \E t \in Tasks : DispatchRebase(t)
    \/ \E t \in Tasks : DispatchTodos(t)
    \/ \E t \in Tasks : Lookup(t)
    \/ \E t \in Tasks : Throttle(t)
    \/ \E t \in Tasks, resp \in upstream : Urlopen(t, resp)
    \/ \E t \in Tasks : Respond(t)
    \/ \E t \in Tasks : RespondRebase(t)
    \/ \E t \in Tasks : RebaseNext(t)
    \/ \E t \in Tasks, resp \in upstream : RebasePut(t, resp)
    \/ \E t \in Tasks : Close(t)

\* ------------------------------------------------------------- env_loader
\* A dotenv file: missing, or its lines.
NoFile == [exists |-> FALSE, lines |-> <<>>]
File(lines) == [exists |-> TRUE, lines |-> lines]

\* the position of the first "=" in line, 0 if there is none (lines 18-20)
RECURSIVE FirstEq(_, _)
FirstEq(line, j) ==
    IF j > Len(line) THEN 0
    ELSE IF line[j] = "=" THEN j
    ELSE FirstEq(line, j + 1)

\* line 23: val is wrapped in a pair of double or of single quotes
Quoted(val) ==
    /\ val # <<>>
    /\ \/ Head(val) = "\"" /\ val[Len(val)] = "\""
       \/ Head(val) = "'" /\ val[Len(val)] = "'"

\* lines 15-24: the key and the value a line defines, if it defines any
ParseLine(raw_line) ==
    LET line == Strip(raw_line)
        eq == FirstEq(line, 1)
        key == Strip(SubSeq(line, 1, eq - 1))
        val == Strip(SubSeq(line, eq + 1, Len(line)))
    IN IF line = <<>> \/ Head(line) = "#" \/ eq = 0
           THEN [skip |-> TRUE, key |-> <<>>, val |-> <<>>]
           ELSE [skip |-> FALSE, key |-> key,
                 val |-> IF Quoted(val) THEN SubSeq(val, 2, Len(val) - 1) ELSE val]

\* A variable name is one token of a line; the names followed here are those of env.
Tracked(key) == Len(key) = 1 /\ key[1] \in DOMAIN env

\* mutant: the file overrides what the environment holds
Setdefault_Override(e, key, val) ==
    IF key # <<>> /\ Tracked(key) THEN [e EXCEPT ![key[1]] = SetTo(val)] ELSE e

\* lines 25-26: if key and key not in os.environ: os.environ[key] = val
Setdefault(e, key, val) ==
    IF key # <<>> /\ Tracked(key) /\ ~e[key[1]].set
        THEN [e EXCEPT ![key[1]] = SetTo(val)]
        ELSE e

\* main.py lines 14-15: the files in the order they are loaded
DotenvPaths == <<".env.local", ".env">>

\* the loads are over: nothing is left to read
Imported(e) ==
    [files |-> [j \in 1..Len(DotenvPaths) |-> NoFile], file |-> Len(DotenvPaths) + 1,
     line |-> 1, initial |-> e, read |-> <<>>]

Loading == dotenv.file <= Len(DotenvPaths)
CurrentFile == dotenv.files[dotenv.file]
Outside == <<upstream, routes, clock, backlog, _CACHE, _LAST_REQUEST_TS, task, trace,
             prev_return, stored_at_start>>

\* lines 14-26: one more line of the current file is read and applied
LoadLine ==
    /\ Loading
    /\ CurrentFile.exists
    /\ dotenv.line <= Len(CurrentFile.lines)
    /\ LET p == ParseLine(CurrentFile.lines[dotenv.line]) IN
           /\ env' = IF p.skip THEN env ELSE Setdefault(env, p.key, p.val)
           /\ dotenv' = [dotenv EXCEPT !.line = @ + 1,
                                       !.read = Append(@, CurrentFile.lines[dotenv.line])]
    /\ UNCHANGED Outside

\* lines 10-11 and the end of the for loop: the call returns, the next load starts
EndFile ==
    /\ Loading
    /\ ~CurrentFile.exists \/ dotenv.line > Len(CurrentFile.lines)
    /\ dotenv' = [dotenv EXCEPT !.file = @ + 1, !.line = 1]
    /\ UNCHANGED <<env, Outside>>

\* lines 27-29: reading raises (the rest is not valid UTF-8, an I/O error) and
\* the rest of the file is silently given up
ReadError ==
    /\ Loading
    /\ CurrentFile.exists
    /\ dotenv.line <= Len(CurrentFile.lines)
    /\ dotenv' = [dotenv EXCEPT !.file = @ + 1, !.line = 1]
    /\ UNCHANGED <<env, Outside>>

\* ------------------------------------------------------------- specifications
\* the state after import: empty cache, no request made yet
Start(envs, responses, handlers) ==
    /\ env \in envs
    /\ dotenv = Imported(env)
    /\ upstream = responses
    /\ routes \in handlers
    /\ clock = 0
    /\ backlog = 0
    /\ _CACHE = <<>>
    /\ _LAST_REQUEST_TS = NoTime
    /\ task = [t \in Tasks |-> IdleTask]
    /\ trace = [t \in Tasks |-> IdleTrace]
    /\ prev_return = NoTime
    /\ stored_at_start = <<>>

BaseEnv ==
    [GITLAB_API_URL |-> SetTo(<<"u", "/">>),
     GITLAB_TOKEN |-> SetTo(<<"k">>),
     GITLAB_USERNAME |-> SetTo(<<"a">>),
     GITLAB_ASSIGNEES |-> SetTo(<<"a", ",", " ", "b">>),
     MY_MRS_ASSIGNEE |-> Unset,
     GITLAB_MAX_ASSIGNEES |-> Unset,
     GITLAB_CACHE_TTL_SECONDS |-> Unset,
     GITLAB_MIN_INTERVAL_MS |-> Unset]

\* Spec: the cache and the pacing, over the TTL and the minimum interval
TimingEnvs ==
    {[BaseEnv EXCEPT !["GITLAB_CACHE_TTL_SECONDS"] = ttl, !["GITLAB_MIN_INTERVAL_MS"] = iv] :
        ttl \in {SetTo(<<"0">>), SetTo(<<"1">>), SetTo(<<"-", "1">>)},
        iv \in {SetTo(<<"1", "0", "0", "0">>), SetTo(<<"0">>)}}

TimingResponses ==
    {Response(200, ListBody(<<MR("int", 1, "p")>>)),
     Response(200, ListBody(<<MR("int", 2, "p"), MR("int", 1, "q")>>)),
     Failure(0)}

Init == Start(TimingEnvs, TimingResponses, {Handlers})

Spec == Init /\ [][Next]_vars

\* SpecCall: one call of fetch_gitlab_mrs(assignees_raw, params) run to its end,
\* over the arguments and the configuration
RawInputs ==
    {<<>>, <<",">>, <<",", " ", ",">>, <<"a">>, <<" ", "b", " ">>, <<"a", ",", "b">>,
     <<"b", ",", " ", "a", ",", "c">>, <<"a", ",", ",", "b", ",", "a">>}

PerPageInputs ==
    {PyInt(n) : n \in -5..45}
    \cup {PyNone, PyStr(<<"x">>), PyStr(<<"7">>), PyStr(<<" ", "4", "1">>),
          PyStr(<<"-", "3">>), PyStr(<<>>)}

\* base_params with the caller's per_page, and without one
ParamsInputs ==
    {DictSet(BaseParams("updated_at"), "per_page", v) : v \in PerPageInputs}
    \cup {<<[k |-> "state", v |-> PyStr(<<"opened">>)]>>, <<>>}

OkResponse == Response(200, ListBody(<<MR("int", 1, "p")>>))

MergeResponses ==
    {Response(200, ListBody(<<MR("int", 1, "p")>>)),
     Response(200, ListBody(<<MR("int", 2, "p"), MR("int", 1, "q"), MR("int", 2, "q")>>)),
     Response(200, ListBody(<<MR("none", 0, "p"), MR("str", 0, "q"), MR("none", 0, "p"),
                              MR("int", 1, "q")>>)),
     Response(200, ObjectBody),
     Response(200, NullBody),
     Response(200, BadBody)}

NoPacing == [BaseEnv EXCEPT !["GITLAB_MIN_INTERVAL_MS"] = SetTo(<<"0">>)]

SubjectEnvs ==
    {[NoPacing EXCEPT !["GITLAB_USERNAME"] = u, !["GITLAB_MAX_ASSIGNEES"] = m] :
        u \in {Unset, SetTo(<<" ", "d">>)},
        m \in {Unset, SetTo(<<"x">>), SetTo(<<"0">>), SetTo(<<"-", "1">>), SetTo(<<"1">>),
               SetTo(<<"2">>), SetTo(<<"3">>)}}

UnconfiguredEnvs ==
    {[NoPacing EXCEPT !["GITLAB_API_URL"] = u, !["GITLAB_TOKEN"] = k] :
        u \in {Unset, SetTo(<<>>), SetTo(<<"u">>)},
        k \in {Unset, SetTo(<<>>), SetTo(<<"k">>)}}

\* frame 1 holds the arguments of the call
StartCall(envs, responses, raws, paramss) ==
    /\ env \in envs
    /\ dotenv = Imported(env)
    /\ upstream = responses
    /\ routes = {}
    /\ clock = 0
    /\ backlog = 0
    /\ _CACHE = <<>>
    /\ _LAST_REQUEST_TS = NoTime
    /\ \E raw \in raws, params \in paramss :
           task = [t \in Tasks |->
                      IF t = 1 THEN [IdleTask EXCEPT !.pc = "called", !.assignees_raw = raw,
                                                     !.params = params]
                      ELSE IdleTask]
    /\ trace = [t \in Tasks |-> IdleTrace]
    /\ prev_return = NoTime
    /\ stored_at_start = <<>>

InitCall ==
    \/ StartCall({NoPacing}, {OkResponse, Failure(401)}, {<<"a">>}, ParamsInputs)
    \/ StartCall(SubjectEnvs, {OkResponse, Failure(0)}, RawInputs, {BaseParams("updated_at")})
    \/ StartCall(UnconfiguredEnvs, {OkResponse}, {<<>>, <<"a", ",", "b">>},
                 {BaseParams("created_at")})
    \/ StartCall({NoPacing}, MergeResponses,
                 {<<"a", ",", "b">>, <<"a", ",", "b", ",", "a">>}, {BaseParams("updated_at")})

NextCall ==
    \/ \E t \in Tasks : Call(t)
    \/ \E t \in Tasks : Lookup(t)
    \/ \E t \in Tasks : Throttle(t)
    \/ \E t \in Tasks, resp \in upstream : Urlopen(t, resp)

SpecCall == InitCall /\ [][NextCall]_vars

\* SpecKeys: two calls of fetch_gitlab_mrs in flight, so that the cache keys of
\* two queries can be compared; over parameter dicts that are equal as
\* mappings but differ in insertion order, and dicts that differ in a value
Reversed(d) == [j \in 1..Len(d) |-> d[Len(d) + 1 - j]]

KeyParamsInputs ==
    {BaseParams("updated_at"),
     Reversed(BaseParams("updated_at")),
     BaseParams("created_at"),
     DictSet(BaseParams("updated_at"), "per_page", PyInt(45)),
     DictSet(BaseParams("updated_at"), "per_page", PyStr(<<"4", "0">>)),
     DictSet(Reversed(BaseParams("updated_at")), "per_page", PyInt(7)),
     DictSet(BaseParams("updated_at"), "state", PyInt(1)),
     DictSet(BaseParams("updated_at"), "state", PyStr(<<"1">>)),
     DictSet(BaseParams("updated_at"), "state", PyNone),
     <<[k |-> "state", v |-> PyStr(<<"opened">>)]>>,
     <<>>}

KeyEnvs ==
    {[NoPacing EXCEPT !["GITLAB_API_URL"] = SetTo(u)] :
        u \in {<<"u">>, <<"u", "/">>, <<"u", "/", "/">>}}

InitKeys ==
    /\ env \in KeyEnvs
    /\ dotenv = Imported(env)
    /\ upstream = {OkResponse}
    /\ routes = {}
    /\ clock = 0
    /\ backlog = 0
    /\ _CACHE = <<>>
    /\ _LAST_REQUEST_TS = NoTime
    /\ \E raw1 \in {<<"a">>, <<"a", ",", "b">>}, raw2 \in {<<"a">>, <<"b">>} :
       \E p1 \in KeyParamsInputs, p2 \in KeyParamsInputs :
           task = [t \in Tasks |->
                      [IdleTask EXCEPT !.pc = "called",
                                       !.assignees_raw = IF t = 1 THEN raw1 ELSE raw2,
                                       !.params = IF t = 1 THEN p1 ELSE p2]]
    /\ trace = [t \in Tasks |-> IdleTrace]
    /\ prev_return = NoTime
    /\ stored_at_start = <<>>

SpecKeys == InitKeys /\ [][NextCall]_vars

\* SpecEnv: the two loads of main.py at import, over the files and over what
\* the process environment holds before
LineInputs ==
    {<<"GITLAB_TOKEN", "=", "x">>,
     <<" ", "GITLAB_TOKEN", " ", "=", " ", "\"", "y", " ", "\"", " ">>,
     <<"GITLAB_USERNAME", "=", "'", "a", "'">>,
     <<"GITLAB_USERNAME", "=", "b", "=", "c">>,
     <<"GITLAB_USERNAME", "=">>,
     <<"#", "GITLAB_TOKEN", "=", "z">>,
     <<"GITLAB_TOKEN">>,
     <<"=", "x">>,
     <<" ">>}

FileInputs ==
    {NoFile, File(<<>>)}
    \cup {File(<<l>>) : l \in LineInputs}
    \cup {File(<<l, m>>) : l \in LineInputs,
                           m \in {<<"GITLAB_TOKEN", "=", "w">>, <<"GITLAB_USERNAME", "=", "d">>}}
    \cup {File(<<<<"=", "x">>, <<"GITLAB_USERNAME", "=">>, <<"GITLAB_USERNAME", "=", "e">>>>)}

ProcessEnvs ==
    {[BaseEnv EXCEPT !["GITLAB_TOKEN"] = k, !["GITLAB_USERNAME"] = u] :
        k \in {Unset, SetTo(<<>>), SetTo(<<"k">>)}, u \in {Unset, SetTo(<<"a">>)}}

InitEnv ==
    /\ env \in ProcessEnvs
    /\ \E local \in FileInputs, plain \in FileInputs :
           dotenv = [files |-> <<local, plain>>, file |-> 1, line |-> 1,
                     initial |-> env, read |-> <<>>]
    /\ upstream = {}
    /\ routes = {}
    /\ clock = 0
    /\ backlog = 0
    /\ _CACHE = <<>>
    /\ _LAST_REQUEST_TS = NoTime
    /\ task = [t \in Tasks |-> IdleTask]
    /\ trace = [t \in Tasks |-> IdleTrace]
    /\ prev_return = NoTime
    /\ stored_at_start = <<>>

NextEnv ==
    \/ LoadLine
    \/ EndFile
    \/ ReadError

SpecEnv == InitEnv /\ [][NextEnv]_vars

\* SpecHandlers: the four routes served one request after another, over the
\* configuration, the target user and what upstream answers
HandlerEnvs ==
    {[NoPacing EXCEPT !["GITLAB_API_URL"] = u, !["MY_MRS_ASSIGNEE"] = m] :
        u \in {SetTo(<<"u">>), SetTo(<<>>), Unset},
        m \in {Unset, SetTo(<<"u", "4", "0", "1">>), SetTo(<<"b">>)}}

HandlerResponses ==
    {Response(200, ListBody(<<MRWith(MR("int", 1, "p"), "int", "int", "some"),
                              MRWith(MR("int", 2, "p"), "none", "int", "none"),
                              MRWith(MR("int", 3, "p"), "int", "str", "empty"),
                              MRWith(MR("int", 4, "p"), "int", "none", "empty")>>)),
     Response(200, ListBody(<<>>)),
     Failure(204), Failure(401), Failure(500), Failure(0)}

InitHandlers == Start(HandlerEnvs, HandlerResponses, {Routes})

SpecHandlers == InitHandlers /\ [][NextHandlers]_vars

\* ------------------------------------------------------------- claims
TtlMs == cache_ttl * MsPerSecond

\* task t takes a step
Moves(t) == task'[t] # task[t]

\* task t finishes a subject in this step, serving it from the cache
ServesFromCache(t) ==
    /\ task[t].pc = "lookup"
    /\ Len(trace'[t].used) = Len(trace[t].used) + 1
    /\ trace'[t].used[Len(trace'[t].used)].src = "cache"

\* _throttle returns to task t in this step
ThrottleReturns(t) == task[t].pc \in {"throttle", "sleep"} /\ task'[t].pc = "urlopen"

\* C1: a cache entry is used in place of an upstream request only if, at the
\* moment of the lookup, now - entry.ts <= TTL, whatever the TTL (zero and
\* negative values included).
C1_ServedOnlyIfFresh ==
    [][\A t \in Tasks :
          ServesFromCache(t) =>
              /\ KeyOf(t) \in DOMAIN _CACHE
              /\ clock - _CACHE[KeyOf(t)].ts <= TtlMs]_vars

\* a subject has been served from an entry stored at an earlier time
C1_Witness ==
    \E t \in Tasks :
        /\ task[t].pc = "lookup"
        /\ task[t].i = 2
        /\ trace[t].used[1].src = "cache"
        /\ clock > 0

\* C2: with a positive TTL, a lookup made within TTL of the start of the call
\* that fetched the subject is served from the cache: no throttle, no upstream
\* request, and the records that call stored.
C2_FreshIsServed ==
    [][\A t \in Tasks :
          (/\ task[t].pc = "lookup"
           /\ Moves(t)
           /\ cache_ttl > 0
           /\ KeyOf(t) \in DOMAIN stored_at_start
           /\ clock - stored_at_start[KeyOf(t)] <= TtlMs)
          => /\ task'[t].pc # "throttle"
             /\ trace'[t].throttles = trace[t].throttles
             /\ trace'[t].requests = trace[t].requests
             /\ trace'[t].used =
                    Append(trace[t].used,
                           [src |-> "cache", data |-> DataOrEmpty(_CACHE[KeyOf(t)].data)])]_vars

\* a call has returned records without any request, exactly TTL after the
\* call that stored them
C2_Witness ==
    \E t \in Tasks :
        /\ task[t].pc = "returned"
        /\ task[t].handler = "my-mrs"
        /\ cache_ttl > 0
        /\ trace[t].requests = <<>>
        /\ trace[t].throttles = 0
        /\ task[t].result.items # <<>>
        /\ trace[t].used[1].src = "cache"
        /\ clock - trace[t].start = 0
        /\ KeyOf(t) \in DOMAIN stored_at_start
        /\ clock - stored_at_start[KeyOf(t)] = TtlMs

\* C3 as stated: a call that starts more than TTL after the start of the call
\* that fetched the subject performs a fresh upstream request for it.
C3_SeparatedCallsRefetch ==
    [][\A t \in Tasks :
          (/\ task[t].pc = "lookup"
           /\ Moves(t)
           /\ KeyOf(t) \in DOMAIN stored_at_start
           /\ trace[t].start - stored_at_start[KeyOf(t)] > TtlMs)
          => task'[t].pc = "throttle"]_vars

\* C3 amended: a lookup that finds no entry, or an entry stored more than TTL
\* ago, is not served from the cache: the call goes on to _throttle and the
\* upstream request.
C3_StaleIsRefetched ==
    [][\A t \in Tasks :
          (/\ task[t].pc = "lookup"
           /\ Moves(t)
           /\ \/ KeyOf(t) \notin DOMAIN _CACHE
              \/ clock - _CACHE[KeyOf(t)].ts > TtlMs)
          => /\ task'[t].pc = "throttle"
             /\ trace'[t].throttles = trace[t].throttles + 1
             /\ trace'[t].used = trace[t].used]_vars

\* the request for a subject whose entry is stale is in flight
C3_Witness ==
    \E t \in Tasks :
        /\ task[t].pc = "urlopen"
        /\ KeyOf(t) \in DOMAIN _CACHE
        /\ clock - _CACHE[KeyOf(t)].ts > TtlMs
        /\ cache_ttl > 0

\* C4: with a positive minimum interval, _throttle returns no earlier than
\* min_interval_ms after its previous return, so two consecutive upstream
\* requests start at least that far apart.
C4_ThrottleSpacing ==
    [][\A t \in Tasks :
          (ThrottleReturns(t) /\ min_interval_ms > 0 /\ prev_return.set)
          => clock' - prev_return.ts >= min_interval_ms]_vars

\* the second request of a call has been sent after a sleep
C4_Witness ==
    \E t \in Tasks :
        /\ task[t].pc = "urlopen"
        /\ Len(trace[t].requests) = 2
        /\ min_interval_ms > 0
        /\ clock - trace[t].start = min_interval_ms

\* C5: _throttle is never entered by two handlers at once: the event loop
\* runs one handler at a time, so the read-modify-write of _LAST_REQUEST_TS
\* is serialized.
C5_ThrottleSerialized ==
    \A t \in Tasks, u \in Tasks :
        (t # u /\ task[t].pc \in {"throttle", "sleep"}) => task[u].pc = "idle"

\* a request waits while another one's _throttle sleeps
C5_Witness ==
    \E t \in Tasks : task[t].pc = "sleep" /\ backlog > 0

\* task t is inside fetch_gitlab_mrs, past the early returns
InLoop(t) == task[t].pc \in {"lookup", "throttle", "sleep", "urlopen", "raised"}

\* the call of task t has returned a list after working through its subjects
ReturnedList(t) ==
    task[t].pc = "returned" /\ ~task[t].result.none /\ task[t].assignee_usernames # <<>>

\* the records the subjects of a call contributed, in subject order
RECURSIVE ConcatUsed(_)
ConcatUsed(used) ==
    IF used = <<>> THEN <<>>
    ELSE (IF Head(used).data.kind = "list" THEN Head(used).data.items ELSE <<>>)
         \o ConcatUsed(Tail(used))

\* the positions of all whose record is the first with its integer id, or has none
FirstOccurrences(all) ==
    {i \in 1..Len(all) :
        \/ all[i].idt # "int"
        \/ \A j \in 1..(i - 1) : ~(all[j].idt = "int" /\ all[j].id = all[i].id)}

\* C6: a successful call returns the concatenation of the per-subject lists
\* with every record removed whose integer id appeared earlier: no two
\* returned records share an integer id, the first occurrence is kept, and
\* records without an integer id are all kept.
C6_AggregateIsFirstOccurrences ==
    \A t \in Tasks :
        ReturnedList(t) =>
            LET all == ConcatUsed(trace[t].used)
                keep == FirstOccurrences(all)
                out == task[t].result.items
            IN /\ Len(trace[t].used) = Len(task[t].assignee_usernames)
               /\ Len(out) = Cardinality(keep)
               /\ \A i \in keep : out[Cardinality({j \in keep : j <= i})] = all[i]
               /\ \A a \in 1..Len(out), b \in 1..Len(out) :
                      (a # b /\ out[a].idt = "int" /\ out[b].idt = "int")
                          => out[a].id # out[b].id

\* a call has dropped a later record with a seen id and kept two records
\* that have no id
C6_Witness ==
    \E t \in Tasks :
        /\ ReturnedList(t)
        /\ Len(task[t].result.items) < Len(ConcatUsed(trace[t].used))
        /\ \E a \in 1..Len(task[t].result.items), b \in 1..Len(task[t].result.items) :
               /\ a < b
               /\ task[t].result.items[a] = task[t].result.items[b]
               /\ task[t].result.items[a].idt = "none"
        /\ \E j \in 1..Len(trace[t].used) : trace[t].used[j].src = "cache"

\* the subjects the raw string of task t names, before the cap
Parsed(t) == ParseAssignees(task[t].assignees_raw)

\* the first n subjects
FirstN(subjects, n) == [j \in 1..n |-> subjects[j]]

\* C7 as stated: for every configured maximum, at most that many subjects
\* are processed, requested and throttled.
C7_AtMostConfiguredMax ==
    \A t \in Tasks :
        (InLoop(t) \/ ReturnedList(t)) =>
            /\ Len(task[t].assignee_usernames) <= max_assignees
            /\ Len(trace[t].requests) <= max_assignees
            /\ trace[t].throttles <= max_assignees

\* C7 amended: for a positive configured maximum the subjects processed are
\* the first min(maximum, count) parsed subjects, with at most that many
\* requests and _throttle calls and none for a later subject; a maximum of
\* zero or less switches the cap off and all parsed subjects are processed.
C7_CapWhenPositive ==
    \A t \in Tasks :
        (InLoop(t) \/ ReturnedList(t)) =>
            LET n == IF max_assignees > 0 THEN Min2(max_assignees, Len(Parsed(t)))
                     ELSE Len(Parsed(t))
            IN /\ task[t].assignee_usernames = FirstN(Parsed(t), n)
               /\ Len(trace[t].requests) <= n
               /\ trace[t].throttles <= n
               /\ \A j \in 1..Len(trace[t].requests) :
                      \E k \in 1..n : /\ trace[t].requests[j].uname = Parsed(t)[k]
                                      /\ k >= j

\* three subjects were named, the maximum is 2, and exactly the first two
\* have been requested
C7_Witness ==
    \E t \in Tasks :
        /\ ReturnedList(t)
        /\ max_assignees = 2
        /\ Len(Parsed(t)) = 3
        /\ Len(trace[t].requests) = 2
        /\ trace[t].requests[1].uname = Parsed(t)[1]
        /\ trace[t].requests[2].uname = Parsed(t)[2]

\* what the caller passed as per_page
GivenPerPage(t) == IntOf(DictGet(task[t].params, "per_page", PyNone))

\* the page size the claim names: below 1 is raised to 1
ClaimedPerPage(t) ==
    LET g == GivenPerPage(t) IN
    IF ~g.ok THEN DefaultPerPage
    ELSE IF g.val > PerPageCap THEN PerPageCap
    ELSE IF g.val < 1 THEN 1
    ELSE g.val

\* the page size of the amended claim: below 1 is replaced by the default
AmendedPerPage(t) ==
    LET g == GivenPerPage(t) IN
    IF ~g.ok THEN DefaultPerPage
    ELSE IF g.val > PerPageCap THEN PerPageCap
    ELSE IF g.val < 1 THEN DefaultPerPage
    ELSE g.val

\* every request of task t, and every cache key of this run, carries page size n
PerPageIs(t, n) ==
    /\ DictGet(task[t].safe_params, "per_page", PyNone) = PyInt(n)
    /\ \A j \in 1..Len(trace[t].requests) : trace[t].requests[j].per_page = PyInt(n)
    /\ \A key \in DOMAIN _CACHE :
           \E j \in 1..Len(key.params) :
               key.params[j] = [k |-> "per_page", v |-> Dumps(PyInt(n))]

Missing(name) == ~env[name].set \/ env[name].val = <<>>

\* C9: without a base URL or without a token (absent or empty) the call
\* returns (None, None), makes no upstream request and no _throttle call, and
\* leaves the cache and the last-request timestamp as they were.
C9_UnconfiguredReturnsNone ==
    (Missing("GITLAB_API_URL") \/ Missing("GITLAB_TOKEN")) =>
        /\ \A t \in Tasks :
               /\ task[t].pc \in {"idle", "called", "returned"}
               /\ task[t].pc = "returned" => task[t].result = NoneResult
               /\ trace[t].requests = <<>>
               /\ trace[t].throttles = 0
               /\ trace[t].used = <<>>
        /\ _CACHE = <<>>
        /\ _LAST_REQUEST_TS = NoTime
        /\ prev_return = NoTime

\* a call that names subjects has returned (None, None) because the base URL
\* is set but empty
C9_Witness ==
    \E t \in Tasks :
        /\ task[t].pc = "returned"
        /\ task[t].result = NoneResult
        /\ task[t].assignees_raw # <<>>
        /\ env["GITLAB_API_URL"] = SetTo(<<>>)
        /\ ~Missing("GITLAB_TOKEN")

\* C10: when upstream is configured and the raw string yields no subject, the
\* call queries the default subject if one is configured, and only otherwise
\* returns an empty list with a null default subject and no upstream request.
C10_EmptyParseFallsBack ==
    \A t \in Tasks :
        (/\ task[t].pc = "returned"
         /\ IsConfigured
         /\ StripNonEmpty(Split(task[t].assignees_raw)) = <<>>)
        => IF default_username # <<>>
               THEN /\ task[t].assignee_usernames = <<default_username>>
                    /\ Len(trace[t].used) = 1
               ELSE /\ task[t].result = ListResult(<<>>, <<>>)
                    /\ trace[t].requests = <<>>


\* the upstream request of task t ends in resp in this step
Answers(t, resp) == task[t].pc = "urlopen" /\ Urlopen(t, resp)

\* C11: a transport error or a non-2xx status for any queried subject ends
\* the whole call in an error: no list is returned, not even the records
\* collected so far, the subject is not skipped, and no request is made for a
\* later subject of the call.
C11_FailureAbortsCall ==
    /\ [][\A t \in Tasks : \A resp \in upstream :
              (Answers(t, resp) /\ resp.status \notin 200..299) =>
                  /\ task'[t].pc = "raised"
                  /\ task'[t].error # NoError
                  /\ task'[t].result = NoneResult
                  /\ task'[t].i = task[t].i
                  /\ trace'[t] = trace[t]]_vars
    /\ [](\A t \in Tasks :
              task[t].pc = "raised" =>
                  /\ task[t].result = NoneResult
                  /\ Len(trace[t].used) = task[t].i - 1
                  /\ trace[t].requests # <<>>
                  /\ trace[t].requests[Len(trace[t].requests)].uname = Uname(t)
                  /\ \A j \in 1..Len(trace[t].requests) :
                         \E k \in 1..task[t].i :
                             trace[t].requests[j].uname = task[t].assignee_usernames[k])
    /\ [][\A t \in Tasks :
              task[t].pc = "raised" =>
                  /\ task'[t].pc \in {"raised", "idle"}
                  /\ task'[t].pc = "raised" => trace'[t] = trace[t]]_vars

\* a call over three subjects failed at the second one with records of the
\* first already collected
C11_Witness ==
    \E t \in Tasks :
        /\ task[t].pc = "raised"
        /\ Len(task[t].assignee_usernames) = 3
        /\ task[t].i = 2
        /\ task[t].aggregated # <<>>
        /\ Len(trace[t].requests) = 2

\* C12: a malformed response body makes its subject contribute no record,
\* does not fail the call, is stored in the cache as the empty list under the
\* subject's key, and the loop goes on to the remaining subjects.
C12_MalformedBodyIsEmpty ==
    [][\A t \in Tasks : \A resp \in upstream :
           (Answers(t, resp) /\ resp.status = 200 /\ resp.body.json = "bad") =>
               /\ task'[t].pc = IF task[t].i < Len(task[t].assignee_usernames)
                                    THEN "lookup" ELSE "returned"
               /\ task'[t].pc = "lookup" => task'[t].i = task[t].i + 1
               /\ task'[t].pc = "returned" =>
                      task'[t].result = ListResult(task[t].aggregated, default_username)
               /\ task'[t].aggregated = task[t].aggregated
               /\ task'[t].error = NoError
               /\ KeyOf(t) \in DOMAIN _CACHE'
               /\ _CACHE'[KeyOf(t)] = [ts |-> clock, data |-> ListData(<<>>)]]_vars

\* the first subject's body was malformed, the second subject's records are returned
C12_Witness ==
    \E t \in Tasks :
        /\ ReturnedList(t)
        /\ Len(trace[t].used) = 2
        /\ trace[t].used[1] = [src |-> "upstream", data |-> ListData(<<>>)]
        /\ trace[t].used[2].src = "upstream"
        /\ task[t].result.items = trace[t].used[2].data.items
        /\ task[t].result.items # <<>>


\* C16 as stated: after every return of _throttle, for every min_interval_ms,
\* the shared timestamp equals the time of that return.
C16_StampedOnEveryReturn ==
    [][\A t \in Tasks : ThrottleReturns(t) => _LAST_REQUEST_TS' = At(clock')]_vars

\* C16 amended: after a return of _throttle with a positive min_interval_ms,
\* whether or not the call waited, the shared timestamp equals the time of
\* that return; with min_interval_ms of zero or less _throttle returns at once
\* and leaves the timestamp as it was.
C16_StampedWhenPacing ==
    [][\A t \in Tasks :
           ThrottleReturns(t) =>
               IF min_interval_ms > 0
                   THEN _LAST_REQUEST_TS' = At(clock')
                   ELSE _LAST_REQUEST_TS' = _LAST_REQUEST_TS]_vars

\* a _throttle call that went to sleep has returned, and the timestamp is
\* the time of its return, later than the first request
C16_Witness ==
    \E t \in Tasks :
        /\ task[t].pc = "urlopen"
        /\ min_interval_ms > 0
        /\ trace[t].throttles = 2
        /\ clock = min_interval_ms
        /\ _LAST_REQUEST_TS = At(clock)
        /\ prev_return = At(clock)


\* the cache key of the j-th subject of task t's call
KeyAt(t, j) ==
    CacheKey(env["GITLAB_API_URL"].val, task[t].assignee_usernames[j],
             OneParams(task[t].safe_params, task[t].assignee_usernames[j]))

\* C19: when a call fails at a subject, the failing step leaves the whole
\* cache as it was (so the failing subject's entry, absent or stale, is
\* untouched); the entries of the earlier subjects are in the cache, those
\* fetched in this call with this call's data; no later step removes or
\* changes an entry except a successful request for its key; and a subject
\* whose entry is still fresh at a retry is served without a request.
C19_FailureKeepsCache ==
    /\ [][\A t \in Tasks :
              (task[t].pc = "urlopen" /\ task'[t].pc = "raised") => _CACHE' = _CACHE]_vars
    /\ [](\A t \in Tasks :
              task[t].pc = "raised" =>
                  \A j \in 1..(task[t].i - 1) :
                      /\ KeyAt(t, j) \in DOMAIN _CACHE
                      /\ trace[t].used[j].src = "upstream" =>
                             /\ _CACHE[KeyAt(t, j)].data = trace[t].used[j].data
                             /\ _CACHE[KeyAt(t, j)].ts >= trace[t].start
                             /\ stored_at_start[KeyAt(t, j)] = trace[t].start)
    /\ [][\A key \in DOMAIN _CACHE :
              /\ key \in DOMAIN _CACHE'
              /\ _CACHE'[key] # _CACHE[key] =>
                     \E t \in Tasks : /\ task[t].pc = "urlopen"
                                      /\ KeyOf(t) = key
                                      /\ task'[t].pc \in {"lookup", "returned"}]_vars
    /\ [][\A t \in Tasks :
              (/\ task[t].pc = "lookup"
               /\ Moves(t)
               /\ KeyOf(t) \in DOMAIN _CACHE
               /\ clock - _CACHE[KeyOf(t)].ts <= TtlMs)
              => /\ task'[t].pc # "throttle"
                 /\ trace'[t].requests = trace[t].requests
                 /\ trace'[t].throttles = trace[t].throttles]_vars

\* a call failed at its second subject: the first subject's entry, stored in
\* this call, is in the cache and the second subject has none
C19_Witness ==
    \E t \in Tasks :
        /\ task[t].pc = "raised"
        /\ task[t].i = 2
        /\ trace[t].used[1].src = "upstream"
        /\ KeyAt(t, 1) \in DOMAIN _CACHE
        /\ stored_at_start[KeyAt(t, 1)] = trace[t].start
        /\ KeyAt(t, 2) \notin DOMAIN _CACHE


\* task t is at a subject of its loop
AtSubject(t) == task[t].pc \in {"lookup", "throttle", "urlopen"}

\* the query of task t for its subject, as a mapping: the set of its items
Mapping(t) ==
    LET q == OneParams(task[t].safe_params, Uname(t))
    IN {q[j] : j \in 1..Len(q)}

\* text is base followed by slashes only
SlashesAfter(base, text) ==
    /\ Len(base) <= Len(text)
    /\ SubSeq(text, 1, Len(base)) = base
    /\ \A j \in (Len(base) + 1)..Len(text) : text[j] = "/"

\* C14: the cache key is a function of the base URL without its trailing
\* slashes, the subject, and the parameter mapping after clamping: two queries
\* with the same subject and the same mapping have the same key whatever the
\* insertion order, and two that differ in the subject or in a parameter
\* value have different keys.
C14_KeyIsCanonical ==
    /\ \A t \in Tasks :
           AtSubject(t) =>
               /\ SlashesAfter(KeyOf(t).url, env["GITLAB_API_URL"].val)
               /\ KeyOf(t).url # <<>> => KeyOf(t).url[Len(KeyOf(t).url)] # "/"
               /\ KeyOf(t).uname = Uname(t)
    /\ \A t \in Tasks, u \in Tasks :
           (AtSubject(t) /\ AtSubject(u)) =>
               (KeyOf(t) = KeyOf(u) <=> (Uname(t) = Uname(u) /\ Mapping(t) = Mapping(u)))

\* two queries in flight whose dicts differ in insertion order and in the
\* per_page passed have the same mapping after clamping, and the same key
C14_Witness ==
    /\ AtSubject(1) /\ AtSubject(2)
    /\ task[1].params # task[2].params
    /\ OneParams(task[1].safe_params, Uname(1)) # OneParams(task[2].safe_params, Uname(2))
    /\ Mapping(1) = Mapping(2)
    /\ KeyOf(1) = KeyOf(2)
    /\ Len(env["GITLAB_API_URL"].val) = 3


\* the lines read so far that define the variable name, in the order read
RECURSIVE Definitions(_, _)
Definitions(lines, name) ==
    IF lines = <<>> THEN <<>>
    ELSE LET p == ParseLine(Head(lines)) IN
         (IF ~p.skip /\ p.key = <<name>> THEN <<p.val>> ELSE <<>>)
         \o Definitions(Tail(lines), name)

\* C17: a variable present in the environment keeps its value through every
\* load: one set before loading is never overwritten, the first definition
\* read wins over later ones in the same file, and .env.local, loaded first,
\* wins over .env.
C17_PresentIsKept ==
    /\ [][\A name \in DOMAIN env : env[name].set => env'[name] = env[name]]_vars
    /\ [](\A name \in DOMAIN env :
              env[name] = IF dotenv.initial[name].set THEN dotenv.initial[name]
                          ELSE IF Definitions(dotenv.read, name) # <<>>
                              THEN SetTo(Head(Definitions(dotenv.read, name)))
                          ELSE Unset)
    /\ [](\E n \in 0..Len(dotenv.files[1].lines), m \in 0..Len(dotenv.files[2].lines) :
              /\ dotenv.read = SubSeq(dotenv.files[1].lines, 1, n)
                                   \o SubSeq(dotenv.files[2].lines, 1, m)
              /\ dotenv.file = 1 => m = 0)

\* both loads are over: a token set before (to the empty string) is kept
\* although a file defines it, and the user name has the first of .env.local's definitions although
\* .env.local and .env define it again
C17_Witness ==
    /\ ~Loading
    /\ dotenv.initial["GITLAB_TOKEN"] = SetTo(<<>>)
    /\ env["GITLAB_TOKEN"] = SetTo(<<>>)
    /\ Len(Definitions(dotenv.read, "GITLAB_TOKEN")) >= 1
    /\ ~dotenv.initial["GITLAB_USERNAME"].set
    /\ Len(Definitions(dotenv.files[1].lines, "GITLAB_USERNAME")) >= 2
    /\ Len(Definitions(dotenv.files[2].lines, "GITLAB_USERNAME")) >= 1
    /\ env["GITLAB_USERNAME"] = SetTo(Head(Definitions(dotenv.files[1].lines, "GITLAB_USERNAME")))
    /\ Head(Definitions(dotenv.files[1].lines, "GITLAB_USERNAME"))
           # Head(Definitions(dotenv.files[2].lines, "GITLAB_USERNAME"))


\* handler h has answered the request of task t
Responded(t, h) == task[t].pc = "responded" /\ task[t].handler = h

\* C13: the rebase-all handler answers a failed aggregate call with status
\* 401 exactly when the upstream failure was an HTTP 401, and with 500 for
\* every other failure, whatever the subject name in the error message.
C13_Status401OnlyForHttp401 ==
    \A t \in Tasks :
        (Responded(t, "rebase-all") /\ task[t].error # NoError) =>
            task[t].response.status = IF task[t].error.status = 401 THEN 401 ELSE 500

\* C18: the review-mrs and my-mrs handlers answer normally whatever
\* fetch_gitlab_mrs did: the source is "gitlab" exactly when the call
\* returned a list (the empty list included), and "sample" with no item from
\* upstream when it returned the unconfigured sentinel or raised.
C18_WidgetsAlwaysAnswer ==
    /\ [](\A t \in Tasks : \A h \in Handlers :
              Responded(t, h) =>
                  /\ task[t].response.status = 200
                  /\ task[t].response.source =
                         IF task[t].error = NoError /\ ~task[t].result.none
                             THEN "gitlab" ELSE "sample"
                  /\ task[t].response.source = "sample" => task[t].response.count = 0
                  /\ task[t].response.count <= Len(task[t].result.items))
    /\ [][\A t \in Tasks :
              (task[t].handler \in Handlers /\ task[t].pc \in {"returned", "raised"}
                   /\ Moves(t))
              => task'[t].pc = "responded"]_vars

\* review-mrs has answered with "sample" and no item after the call failed
\* at its second subject, records of the first already collected
C18_Witness ==
    \E t \in Tasks :
        /\ Responded(t, "review-mrs")
        /\ task[t].error.kind = "HTTPError"
        /\ task[t].i = 2
        /\ task[t].aggregated # <<>>
        /\ task[t].response = JSONResponse(200, "sample", 0, NoRebase)

\* the records of the list that have both a project id and an iid
RECURSIVE Rebasable(_)
Rebasable(items) ==
    IF items = <<>> THEN <<>>
    ELSE (IF Head(items).project_id # "none" /\ Head(items).iid # "none"
              THEN <<Head(items)>> ELSE <<>>)
         \o Rebasable(Tail(items))

\* C20: in the summary of a rebase-all run that reached the loop, attempted =
\* succeeded + failed; the attempted are the records with both a project id
\* and an iid, each in exactly one of succeeded or failures; records lacking
\* either are in none; rebased_iids has at most succeeded entries.
C20_SummaryAddsUp ==
    \A t \in Tasks :
        (Responded(t, "rebase-all") /\ task[t].response.status = 200) =>
            LET sum == task[t].response.summary IN
            /\ sum.attempted = sum.succeeded + Len(sum.failures)
            /\ sum.attempted = Len(Rebasable(task[t].result.items))
            /\ Len(sum.rebased_iids) <= sum.succeeded
            /\ \A j \in 1..Len(sum.failures) :
                   sum.failures[j].project_id # "none" /\ sum.failures[j].iid # "none"
            /\ \A j \in 1..Len(sum.rebased_iids) : sum.rebased_iids[j].iid = "int"

\* a run over four records skipped two, had one PUT fail and one succeed
\* with an iid that is not an int
C20_Witness ==
    \E t \in Tasks :
        /\ Responded(t, "rebase-all")
        /\ task[t].response.status = 200
        /\ Len(task[t].result.items) = 4
        /\ task[t].response.summary.attempted = 2
        /\ task[t].response.summary.succeeded = 1
        /\ Len(task[t].response.summary.failures) = 1
        /\ task[t].response.summary.rebased_iids = <<>>

\* C15: while one request's call waits in the throttle sleep, in a blocking
\* upstream request or in a rebase PUT, a request that is waiting can still
\* be started by the event loop (here the todos handler, which needs no
\* upstream call).
C15_OthersCanProgress ==
    \A t \in Tasks :
        (task[t].pc \in {"sleep", "urlopen", "put"} /\ backlog > 0)
            => ENABLED (\E u \in Tasks : DispatchTodos(u))

====
